---- MODULE Spec2Model ----
\* A model of utils/auto_conda.py and utils/auto_git.py: thin wrappers that
\* build a shell command, run it through subprocess with check=True, print a
\* confirmation on success and print a diagnostic + sys.exit(1) on
\* subprocess.CalledProcessError.
\*
\* The external tools are the environment: their exit statuses (and the text
\* `conda info --envs` prints) are inputs drawn with \E.  What the Python code
\* does with them is translated statement by statement.  Text is modelled as
\* sequences of tokens (a name, "*", "\n"), assumed to be valid UTF-8.
EXTENDS Integers, Sequences, FiniteSets

\* ---------------------------------------------------------------- bounds
\* number of wrapper calls made by one interpreter process
MaxCalls == 3

\* ------------------------------------------------------- the file system
\* Relative paths resolve against the current working directory, which is the
\* project root that `cp -r .` copies.
Paths == {"requirements.txt", "backups", "/mnt/backup", "environment.yml"}
InTree(p) == p \in {"requirements.txt", "backups", "environment.yml"}
Kinds == {"absent", "file", "dir"}
BaseFiles == {"main.py"}

\* the regular files of the project root in file system f
ProjectFiles(f) == BaseFiles \cup {p \in Paths : InTree(p) /\ f[p] = "file"}

\* os.path.exists(path)
path_exists(f, p) == f[p] # "absent"

\* ------------------------------------------------------------- messages
MsgPushStart == "Aktualisiere Repository mit 'git push'..."
MsgPushOk == "Repository erfolgreich hochgeladen."
\* git_push_master reports its failure with the same text as git_pull
MsgPushErr == "Fehler beim Git Pull: {e}"
MsgPullStart == "Aktualisiere Repository mit 'git pull'..."
MsgPullOk == "Repository erfolgreich aktualisiert."
MsgPullErr == "Fehler beim Git Pull: {e}"
MsgInstallStart == "Installiere Abhaengigkeiten aus '{requirements_file}'..."
MsgInstallOk == "Abhaengigkeiten erfolgreich installiert."
MsgInstallErr == "Fehler bei der Installation der Abhaengigkeiten: {e}"
MsgNotFound == "Die Datei '{requirements_file}' wurde nicht gefunden."
MsgStatusStart == "Zeige aktuellen Git-Status..."
MsgStatusErr == "Fehler beim Anzeigen des Git-Status: {e}"
MsgBackupOk == "Projekt erfolgreich in '{backup_dir}' gesichert."
MsgBackupErr == "Fehler beim Erstellen des Backups: {e}"
MsgFreezeStart == "Speichere Conda-Umgebung '{env_name}' in '{output_file}'..."
MsgFreezeOk == "Umgebung erfolgreich in '{output_file}' gespeichert."
MsgFreezeErr == "Fehler beim Speichern der Conda-Umgebung: {e}"
MsgHelp == "Verfuegbare Funktionen: git_pull, git_push_master, install_requirements, git_status, backup_project"

Confirmations == {MsgPushOk, MsgPullOk, MsgInstallOk, MsgBackupOk, MsgFreezeOk}
Diagnostics == {MsgPushErr, MsgPullErr, MsgInstallErr, MsgStatusErr, MsgBackupErr, MsgFreezeErr}

\* ------------------------------------------------------------- commands
\* A shell command line: the program part, the interpolated environment name
\* (a token sequence) and the interpolated path.
Cmd(prog, name, path) == [prog |-> prog, name |-> name, path |-> path]
NoCmd == Cmd("", <<>>, "")
CmdPush == Cmd("git push -u origin master", <<>>, "")
CmdPull == Cmd("git pull origin master", <<>>, "")
CmdStatus == Cmd("git status", <<>>, "")
CmdInstall(p) == Cmd("pip install -r {requirements_file}", <<>>, p)
CmdCp(d) == Cmd("cp -r . {backup_dir}", <<>>, d)
CmdList == Cmd("conda info --envs | grep '*' | awk '{print $1}'", <<>>, "")
CmdExport(n, o) == Cmd("conda env export --name {env_name} > {output_file}", n, o)

\* ---------------------------------------------------------------- events
\* What a call does, in order: prints, external commands with their exit
\* status, and the os.makedirs call.
Stdout(m) == [kind |-> "print", msg |-> m, cmd |-> NoCmd, status |-> 0]
Run(c, st) == [kind |-> "run", msg |-> "", cmd |-> c, status |-> st]
Mkdir(d, st) == [kind |-> "makedirs", msg |-> "", cmd |-> Cmd("os.makedirs", <<>>, d), status |-> st]

\* subprocess.run(..., check=True) and subprocess.check_output raise
\* CalledProcessError exactly when the shell's exit status is non-zero
CalledProcessError(st) == st # 0

Result(ev, end, f, c) == [events |-> ev, end |-> end, fs |-> f, copied |-> c]

\* ------------------------------------------------------------ auto_git.py
\* variant: a failed push is tried a second time
git_push_master_retry(f, c, st) ==
    LET e1 == <<Stdout(MsgPushStart), Run(CmdPush, st)>>
    IN IF CalledProcessError(st)
       THEN Result(e1 \o <<Run(CmdPush, st), Stdout(MsgPushErr)>>, "exit1", f, c)
       ELSE Result(e1 \o <<Stdout(MsgPushOk)>>, "returned", f, c)

git_push_master(f, c, st) ==
    LET e1 == <<Stdout(MsgPushStart), Run(CmdPush, st)>>
    IN IF CalledProcessError(st)
       THEN Result(e1 \o <<Stdout(MsgPushErr)>>, "exit1", f, c)
       ELSE Result(e1 \o <<Stdout(MsgPushOk)>>, "returned", f, c)

\* variant: check=True dropped, the exit status is ignored
git_pull_unchecked(f, c, st) ==
    Result(<<Stdout(MsgPullStart), Run(CmdPull, st), Stdout(MsgPullOk)>>, "returned", f, c)

git_pull(f, c, st) ==
    LET e1 == <<Stdout(MsgPullStart), Run(CmdPull, st)>>
    IN IF CalledProcessError(st)
       THEN Result(e1 \o <<Stdout(MsgPullErr)>>, "exit1", f, c)
       ELSE Result(e1 \o <<Stdout(MsgPullOk)>>, "returned", f, c)

\* variant: the os.path.exists test dropped
install_requirements_no_exists(f, c, requirements_file, st) ==
    LET e1 == <<Stdout(MsgInstallStart), Run(CmdInstall(requirements_file), st)>>
    IN IF CalledProcessError(st)
       THEN Result(e1 \o <<Stdout(MsgInstallErr)>>, "exit1", f, c)
       ELSE Result(e1 \o <<Stdout(MsgInstallOk)>>, "returned", f, c)

\* variant: the command names the default file instead of the argument
install_requirements_default(f, c, requirements_file, st) ==
    IF path_exists(f, requirements_file)
    THEN LET e1 == <<Stdout(MsgInstallStart), Run(CmdInstall("requirements.txt"), st)>>
         IN IF CalledProcessError(st)
            THEN Result(e1 \o <<Stdout(MsgInstallErr)>>, "exit1", f, c)
            ELSE Result(e1 \o <<Stdout(MsgInstallOk)>>, "returned", f, c)
    ELSE Result(<<Stdout(MsgNotFound)>>, "returned", f, c)

install_requirements(f, c, requirements_file, st) ==
    IF path_exists(f, requirements_file)
    THEN LET e1 == <<Stdout(MsgInstallStart), Run(CmdInstall(requirements_file), st)>>
         IN IF CalledProcessError(st)
            THEN Result(e1 \o <<Stdout(MsgInstallErr)>>, "exit1", f, c)
            ELSE Result(e1 \o <<Stdout(MsgInstallOk)>>, "returned", f, c)
    ELSE Result(<<Stdout(MsgNotFound)>>, "returned", f, c)

git_status(f, c, st) ==
    LET e1 == <<Stdout(MsgStatusStart), Run(CmdStatus, st)>>
    IN IF CalledProcessError(st)
       THEN Result(e1 \o <<Stdout(MsgStatusErr)>>, "exit1", f, c)
       ELSE Result(e1, "returned", f, c)

\* variant: the help text is followed by sys.exit(1)
show_help_exits(f, c) == Result(<<Stdout(MsgHelp)>>, "exit1", f, c)

show_help(f, c) == Result(<<Stdout(MsgHelp)>>, "returned", f, c)

\* if __name__ == "__main__": show_help()
script_main(f, c) == show_help(f, c)

\* os.makedirs(backup_dir, exist_ok=True): an existing directory is accepted,
\* an existing regular file raises FileExistsError, and creating an absent
\* directory raises PermissionError when the parent refuses it (denied).
makedirs(f, d, denied) ==
    IF f[d] = "dir" THEN [ok |-> TRUE, fs |-> f]
    ELSE IF f[d] = "file" \/ denied THEN [ok |-> FALSE, fs |-> f]
    ELSE [ok |-> TRUE, fs |-> [f EXCEPT ![d] = "dir"]]

\* `cp -r . {backup_dir}` run in the project root.  A target inside the tree
\* being copied makes cp copy the files and then refuse to copy the directory
\* into itself (exit 1); an environmental fault (disk full, unreadable file)
\* leaves a partial copy and exit 1.
cp_r(f, c, d, fault, partial) ==
    IF f[d] = "file" THEN [status |-> 1, fs |-> f, copied |-> c]
    ELSE LET f2 == [f EXCEPT ![d] = "dir"]
         IN IF fault
            THEN [status |-> 1, fs |-> f2,
                  copied |-> [c EXCEPT ![d] = @ \cup (partial \cap ProjectFiles(f))]]
            ELSE [status |-> IF InTree(d) THEN 1 ELSE 0, fs |-> f2,
                  copied |-> [c EXCEPT ![d] = @ \cup ProjectFiles(f)]]

\* variant: check=True dropped from the cp call
backup_project_unchecked(f, c, backup_dir, denied, fault, partial) ==
    LET m == makedirs(f, backup_dir, denied)
    IN IF ~m.ok
       THEN Result(<<Mkdir(backup_dir, 1)>>, "raised", f, c)
       ELSE LET r == cp_r(m.fs, c, backup_dir, fault, partial)
            IN Result(<<Mkdir(backup_dir, 0), Run(CmdCp(backup_dir), r.status),
                        Stdout(MsgBackupOk)>>, "returned", r.fs, r.copied)

backup_project(f, c, backup_dir, denied, fault, partial) ==
    LET m == makedirs(f, backup_dir, denied)
    IN IF ~m.ok
       THEN \* OSError is not a CalledProcessError: the except clause does not apply
            Result(<<Mkdir(backup_dir, 1)>>, "raised", f, c)
       ELSE LET r == cp_r(m.fs, c, backup_dir, fault, partial)
                e1 == <<Mkdir(backup_dir, 0), Run(CmdCp(backup_dir), r.status)>>
            IN IF CalledProcessError(r.status)
               THEN Result(e1 \o <<Stdout(MsgBackupErr)>>, "exit1", r.fs, r.copied)
               ELSE Result(e1 \o <<Stdout(MsgBackupOk)>>, "returned", r.fs, r.copied)

\* ---------------------------------------------------------- auto_conda.py
\* str.strip(): leading and trailing whitespace removed
IsSpace(t) == t \in {" ", "\n", "\t"}
RECURSIVE lstrip(_)
lstrip(s) == IF s = <<>> THEN <<>>
             ELSE IF IsSpace(Head(s)) THEN lstrip(Tail(s)) ELSE s
RECURSIVE rstrip(_)
rstrip(s) == IF s = <<>> THEN <<>>
             ELSE IF IsSpace(s[Len(s)]) THEN rstrip(SubSeq(s, 1, Len(s) - 1)) ELSE s
strip(s) == rstrip(lstrip(s))

\* grep '*': the lines that contain an asterisk
grep_star(lines) == SelectSeq(lines, LAMBDA l : \E i \in DOMAIN l : l[i] = "*")
\* awk '{print $1}': the first field of every line, each followed by a newline
RECURSIVE awk_first(_)
awk_first(lines) == IF lines = <<>> THEN <<>>
                    ELSE <<Head(lines)[1], "\n">> \o awk_first(Tail(lines))

\* The shell runs the three stages of the pipeline; its exit status is the
\* status of the last stage (awk), whatever conda and grep returned.
list_pipeline(listing, awkSt) ==
    [status |-> awkSt,
     out |-> IF awkSt = 0 THEN awk_first(grep_star(listing.lines)) ELSE <<>>]

\* `> {output_file}`: the shell creates or truncates the file before conda runs
shell_redirect(f, o) == [f EXCEPT ![o] = "file"]

None == [given |-> FALSE, val |-> <<>>]
Some(n) == [given |-> TRUE, val |-> n]

export_step(f, c, pre, name, output_file, st) ==
    LET e1 == pre \o <<Stdout(MsgFreezeStart), Run(CmdExport(name, output_file), st)>>
        f2 == shell_redirect(f, output_file)
    IN IF CalledProcessError(st)
       THEN Result(e1 \o <<Stdout(MsgFreezeErr)>>, "exit1", f2, c)
       ELSE Result(e1 \o <<Stdout(MsgFreezeOk)>>, "returned", f2, c)

\* variant: `if not env_name:` instead of `if env_name is None:`
freeze_conda_environment_falsy(f, c, env_name, output_file, listing, awkSt, st) ==
    IF env_name = None \/ env_name.val = <<>>
    THEN LET p == list_pipeline(listing, awkSt)
         IN IF CalledProcessError(p.status)
            THEN Result(<<Run(CmdList, p.status), Stdout(MsgFreezeErr)>>, "exit1", f, c)
            ELSE export_step(f, c, <<Run(CmdList, p.status)>>, strip(p.out), output_file, st)
    ELSE export_step(f, c, <<>>, env_name.val, output_file, st)

freeze_conda_environment(f, c, env_name, output_file, listing, awkSt, st) ==
    IF env_name = None
    THEN LET p == list_pipeline(listing, awkSt)
         IN IF CalledProcessError(p.status)
            THEN Result(<<Run(CmdList, p.status), Stdout(MsgFreezeErr)>>, "exit1", f, c)
            ELSE export_step(f, c, <<Run(CmdList, p.status)>>, strip(p.out), output_file, st)
    ELSE export_step(f, c, <<>>, env_name.val, output_file, st)

\* ---------------------------------------------------------------- inputs
Statuses == {0, 1}
RequirementsArgs == {"requirements.txt", "backups"}
BackupArgs == {"backups", "/mnt/backup"}
OutputArgs == {"environment.yml"}
EnvArgs == {None, Some(<<"dev">>), Some(<<>>)}
\* what `conda info --envs` can print: a named environment active, no
\* environment active, an unnamed (prefix) environment active, or nothing at
\* all because conda itself failed
Listings ==
    { [status |-> 0, lines |-> << <<"#", "conda", "environments:">>, <<"base", "*", "/opt/conda">>, <<"dev", "/opt/conda/envs/dev">> >>],
      [status |-> 0, lines |-> << <<"base", "/opt/conda">>, <<"dev", "*", "/opt/conda/envs/dev">> >>],
      [status |-> 0, lines |-> << <<"base", "/opt/conda">>, <<"dev", "/opt/conda/envs/dev">> >>],
      [status |-> 0, lines |-> << <<"*", "/tmp/prefix-env">>, <<"base", "/opt/conda">> >>],
      [status |-> 1, lines |-> << >>] }

\* ----------------------------------------------------------------- state
\* fs      kind of every path
\* copied  files present below each backup target
\* proc    "running", "exit0" (script finished), "exit1" (sys.exit(1)) or
\*         "raised" (an exception nothing caught ended the process)
\* ncalls  calls made so far by this process
\* last    the last call: function, arguments, what it did, how it ended
VARIABLES fs, copied, proc, ncalls, last

vars == <<fs, copied, proc, ncalls, last>>

Call(fn, env, path, oracle, r) ==
    [fn |-> fn, env |-> env, path |-> path, oracle |-> oracle,
     events |-> r.events, end |-> r.end, pre |-> fs, precopied |-> copied]

NoOracle == [listing |-> [status |-> 0, lines |-> <<>>], denied |-> FALSE, fault |-> FALSE]

Init ==
    /\ fs \in [Paths -> Kinds]
    /\ fs["requirements.txt"] \in {"absent", "file"}
    /\ fs["/mnt/backup"] \in {"absent", "dir"}
    /\ fs["environment.yml"] = "absent"
    /\ copied = [p \in Paths |-> {}]
    /\ proc = "running"
    /\ ncalls = 0
    /\ last = [fn |-> "none", env |-> None, path |-> "", oracle |-> NoOracle,
               events |-> <<>>, end |-> "none", pre |-> fs, precopied |-> copied]

\* the caller invokes a wrapper; r is what the wrapper does
Finish(fn, env, path, oracle, r) ==
    /\ last' = Call(fn, env, path, oracle, r)
    /\ fs' = r.fs
    /\ copied' = r.copied
    /\ proc' = IF r.end # "returned" THEN r.end
               ELSE IF fn = "__main__" THEN "exit0" ELSE "running"
    /\ ncalls' = ncalls + 1

CanCall == proc = "running" /\ ncalls < MaxCalls

GitPushMaster ==
    /\ CanCall
    /\ \E st \in Statuses :
         Finish("git_push_master", None, "", NoOracle, git_push_master(fs, copied, st))

GitPull ==
    /\ CanCall
    /\ \E st \in Statuses :
         Finish("git_pull", None, "", NoOracle, git_pull(fs, copied, st))

InstallRequirements ==
    /\ CanCall
    /\ \E p \in RequirementsArgs, st \in Statuses :
         Finish("install_requirements", None, p, NoOracle,
                install_requirements(fs, copied, p, st))

GitStatus ==
    /\ CanCall
    /\ \E st \in Statuses :
         Finish("git_status", None, "", NoOracle, git_status(fs, copied, st))

BackupProject ==
    /\ CanCall
    /\ \E d \in BackupArgs, denied \in BOOLEAN, fault \in BOOLEAN, partial \in SUBSET BaseFiles :
         Finish("backup_project", None, d,
                [NoOracle EXCEPT !.denied = denied, !.fault = fault],
                backup_project(fs, copied, d, denied, fault, partial))

FreezeCondaEnvironment ==
    /\ CanCall
    /\ \E e \in EnvArgs, o \in OutputArgs, l \in Listings, awkSt \in Statuses, st \in Statuses :
         Finish("freeze_conda_environment", e, o,
                [NoOracle EXCEPT !.listing = l],
                freeze_conda_environment(fs, copied, e, o, l, awkSt, st))

ShowHelp ==
    /\ CanCall
    /\ Finish("show_help", None, "", NoOracle, show_help(fs, copied))

ScriptMain ==
    /\ CanCall
    /\ ncalls = 0
    /\ Finish("__main__", None, "", NoOracle, script_main(fs, copied))

Next ==
    \/ GitPushMaster
    \/ GitPull
    \/ InstallRequirements
    \/ GitStatus
    \/ BackupProject
    \/ FreezeCondaEnvironment
    \/ ShowHelp
    \/ ScriptMain

Spec == Init /\ [][Next]_vars

\* ------------------------------------------------------------ properties
Wrappers == {"freeze_conda_environment", "git_push_master", "git_pull",
             "install_requirements", "git_status", "backup_project"}
RepoOps == Wrappers \ {"freeze_conda_environment"}

\* the external commands of a call, in the order they were invoked
Runs(ev) == SelectSeq(ev, LAMBDA e : e.kind = "run")
Printed(ev, m) == \E i \in DOMAIN ev : ev[i] = Stdout(m)
PrintedAny(ev, ms) == \E i \in DOMAIN ev : ev[i].kind = "print" /\ ev[i].msg \in ms
StepFailed(ev) == \E i \in DOMAIN ev : ev[i].kind \in {"run", "makedirs"} /\ ev[i].status # 0
\* the exit status of the command that ran last before position i
StatusBefore(ev, i) ==
    LET js == {j \in 1..(i - 1) : ev[j].kind = "run"}
    IN IF js = {} THEN -1
       ELSE ev[CHOOSE j \in js : \A k \in js : k <= j].status
\* the names `conda info --envs` marks as active
ActiveNames(listing) ==
    {listing.lines[i][1] : i \in {k \in DOMAIN listing.lines :
                                     /\ Len(listing.lines[k]) >= 2
                                     /\ listing.lines[k][1] # "*"
                                     /\ listing.lines[k][2] = "*"}}

\* C1: whenever a step of a wrapper fails (an external command exits
\* non-zero, or the directory creation of backup_project fails), the call
\* ends with sys.exit(1) and no exception reaches the caller.
C1_EveryFailureExits ==
    (last.fn \in Wrappers /\ StepFailed(last.events))
        => (last.end = "exit1" /\ proc = "exit1")

\* C2: install_requirements on a path that does not exist prints the
\* file-not-found message, returns normally and runs no external command.
C2_MissingFileIsSoft ==
    (last.fn = "install_requirements" /\ ~path_exists(last.pre, last.path))
        => /\ last.events = <<Stdout(MsgNotFound)>>
           /\ Runs(last.events) = <<>>
           /\ last.end = "returned"
           /\ proc = "running"
C2_Witness ==
    /\ last.fn = "install_requirements"
    /\ ~path_exists(last.pre, last.path)
    /\ Printed(last.events, MsgNotFound)

\* C3: install_requirements on a path that exists runs exactly one install
\* command, naming exactly the path it was given, whether it succeeds or not.
C3_OneInstallOfThePath ==
    (last.fn = "install_requirements" /\ path_exists(last.pre, last.path))
        => /\ Len(Runs(last.events)) = 1
           /\ Runs(last.events)[1].cmd = CmdInstall(last.path)
           /\ Runs(last.events)[1].cmd.path = last.path
C3_Witness ==
    /\ last.fn = "install_requirements"
    /\ last.path = "backups"
    /\ path_exists(last.pre, last.path)
    /\ last.end = "exit1"

\* C4: freeze_conda_environment with an explicit name never runs the listing
\* command; its only command is the export, naming the given environment.
C4_ExplicitNameNoQuery ==
    (last.fn = "freeze_conda_environment" /\ last.env.given)
        => /\ \A i \in DOMAIN last.events : last.events[i].cmd # CmdList
           /\ Len(Runs(last.events)) = 1
           /\ Runs(last.events)[1].cmd = CmdExport(last.env.val, last.path)
C4_Witness ==
    /\ last.fn = "freeze_conda_environment"
    /\ last.env = Some(<<>>)
    /\ Len(Runs(last.events)) = 1

\* C5: a backup_project call whose target directory already exists (left by
\* an earlier call, or lying inside the project tree) succeeds, as long as
\* nothing unrelated to the directory goes wrong.
C5_ExistingTargetSucceeds ==
    (/\ last.fn = "backup_project"
     /\ last.pre[last.path] = "dir"
     /\ ~last.oracle.fault)
        => (last.end = "returned" /\ proc = "running")

\* C6: after backup_project returns normally the target is a directory holding
\* a copy of every project file, the directory was made before cp ran, and the
\* confirmation is printed in that case and in no other.
C6_BackupComplete ==
    (last.fn = "backup_project")
        => /\ (last.end = "returned")
                => /\ fs[last.path] = "dir"
                   /\ ProjectFiles(last.pre) \subseteq copied[last.path]
                   /\ \E i, j \in DOMAIN last.events :
                        /\ i < j
                        /\ last.events[i] = Mkdir(last.path, 0)
                        /\ last.events[j] = Run(CmdCp(last.path), 0)
           /\ Printed(last.events, MsgBackupOk) <=> (last.end = "returned")
C6_Witness ==
    /\ last.fn = "backup_project"
    /\ last.end = "returned"
    /\ last.pre[last.path] = "absent"
    /\ "requirements.txt" \in copied[last.path]

\* C7: show_help only prints the help text: no external command, no exit,
\* nothing else changed; running the script does exactly what show_help does.
C7_HelpOnlyPrints ==
    (last.fn \in {"show_help", "__main__"})
        => /\ last.events = <<Stdout(MsgHelp)>>
           /\ last.end = "returned"
           /\ proc \notin {"exit1", "raised"}
           /\ fs = last.pre
           /\ copied = last.precopied
C7_Witness ==
    /\ last.fn = "__main__"
    /\ Printed(last.events, MsgHelp)

\* C8: with env_name unset the listing command runs first and the export runs
\* only after it, naming the environment marked active; when no environment
\* can be resolved the export is not run with an empty or unresolved name.
C8_ExportOnlyResolvedName ==
    (last.fn = "freeze_conda_environment" /\ ~last.env.given)
        => LET rs == Runs(last.events)
           IN /\ rs # <<>>
              /\ rs[1].cmd = CmdList
              /\ \A i \in DOMAIN rs :
                    (i > 1) => /\ rs[i].cmd.prog = CmdExport(<<>>, "").prog
                               /\ rs[i].cmd.name # <<>>
                               /\ \E n \in ActiveNames(last.oracle.listing) :
                                     rs[i].cmd.name = <<n>>

\* the two terminal outcomes of a call that ran a command
EndsInSuccess(confirm) ==
    LET ev == last.events
    IN /\ last.end = "returned"
       /\ proc = "running"
       /\ Runs(ev)[Len(Runs(ev))].status = 0
       /\ ~PrintedAny(ev, Diagnostics)
       /\ IF confirm THEN ev[Len(ev)].kind = "print" /\ ev[Len(ev)].msg \in Confirmations
                     ELSE ~PrintedAny(ev, Confirmations)
EndsInFailure ==
    LET ev == last.events
    IN /\ last.end = "exit1"
       /\ proc = "exit1"
       /\ Runs(ev)[Len(Runs(ev))].status # 0
       /\ ev[Len(ev)].kind = "print" /\ ev[Len(ev)].msg \in Diagnostics
       /\ ~PrintedAny(ev, Confirmations)
MessagesMatchStatus ==
    \A i \in DOMAIN last.events :
        /\ (last.events[i].kind = "print" /\ last.events[i].msg \in Confirmations)
               => StatusBefore(last.events, i) = 0
        /\ (last.events[i].kind = "print" /\ last.events[i].msg \in Diagnostics)
               => StatusBefore(last.events, i) \notin {0}

\* C9 as stated: every call that invoked its external command ends either in
\* success (command exited zero, confirmation printed, call returns) or in
\* failure (diagnostic printed, process terminated), never both or neither; no
\* confirmation follows a non-zero exit, no diagnostic a zero exit.
C9_TwoOutcomesWithConfirmation ==
    (last.fn \in Wrappers /\ Runs(last.events) # <<>>)
        => /\ (EndsInSuccess(TRUE) /\ ~EndsInFailure) \/ (EndsInFailure /\ ~EndsInSuccess(TRUE))
           /\ MessagesMatchStatus

\* C9 amended: the same two outcomes, except that the success outcome of
\* git_status prints no confirmation (the status text is its only output).
C9_TwoOutcomes ==
    (last.fn \in Wrappers /\ Runs(last.events) # <<>>)
        => LET conf == last.fn # "git_status"
           IN /\ (EndsInSuccess(conf) /\ ~EndsInFailure) \/ (EndsInFailure /\ ~EndsInSuccess(conf))
              /\ MessagesMatchStatus
C9_Witness ==
    /\ last.fn = "git_status"
    /\ last.end = "returned"
    /\ Runs(last.events) = <<Run(CmdStatus, 0)>>

\* C10: no retries: a call runs each command at most once (one command for a
\* repository operation; for freeze_conda_environment at most the listing and
\* then the export), and a command that exited non-zero is the call's last.
C10_NoRetry ==
    (last.fn \in Wrappers)
        => LET rs == Runs(last.events)
           IN /\ \A i, j \in DOMAIN rs : (rs[i].cmd = rs[j].cmd) => (i = j)
              /\ (last.fn \in RepoOps) => (Len(rs) <= 1)
              /\ (last.fn = "freeze_conda_environment")
                    => /\ Len(rs) <= 2
                       /\ (Len(rs) = 2) => /\ rs[1].cmd = CmdList
                                           /\ rs[2].cmd.prog = CmdExport(<<>>, "").prog
              /\ \A i \in DOMAIN rs : (rs[i].status # 0) => (i = Len(rs))
C10_Witness ==
    /\ last.fn = "freeze_conda_environment"
    /\ Len(Runs(last.events)) = 2
    /\ Runs(last.events)[2].status # 0

====
